---- MODULE Spec2Model ----
(***************************************************************************)
(* The PIZ block codec of exrs, src/compression/piz/mod.rs:                *)
(* compress_bytes, decompress_bytes and their helpers, one action per      *)
(* statement group of the two functions.                                   *)
(*                                                                         *)
(* Representation.  A byte buffer is a sequence of 0..255, a u16 buffer a  *)
(* sequence of 0..65535.  The two large arrays of the code, the bitmap of  *)
(* BITMAP_SIZE bytes and the lookup tables of U16_RANGE entries, are held  *)
(* as functions on the indices whose entry is not zero; ByteAt and EntryAt *)
(* read them and give 0 everywhere else.  A loop of the code over every    *)
(* index of such an array is written as a walk, in ascending order, over   *)
(* the indices at which the loop body does something.                      *)
(*                                                                         *)
(* huffman, wavelet, crate::io::Data and crate::meta::attributes are       *)
(* modules of the crate whose source is not part of src/; their            *)
(* definitions below follow the contracts of spec.md (sections 3, 4.3,     *)
(* 4.4 and 6).  The inspect! macro only prints and is left out.            *)
(***************************************************************************)
EXTENDS Integers, Sequences, FiniteSets, TLC

VARIABLES
    pc,                 \* position in the running function
    channels,           \* ChannelList: sequence of [sample_type, sampling]
    rectangle,          \* IntRect: [position: [x, y], size: [x, y]]
    bytes,              \* compress_bytes: the pixel bytes handed in
    compressed,         \* decompress_bytes: the compressed bytes handed in
    expected_byte_size, \* decompress_bytes: expected_byte_size
    debug_assertions,   \* the build checks debug_assert! (debug) or not (release)
    target_endian,      \* byte order of the host: "little" or "big"
    roundtrip,          \* the call is made by test_roundtrip_noise_with
    tmp,                \* tmp / tmp_buffer: the u16 working buffer
    channel_data,       \* Vec<ChannelData>
    row_y,              \* y: row of the interleave / de-interleave loop
    channel_index,      \* channel of the running loop (1-based)
    offset,             \* lane of the running wavelet loop
    byte_read,          \* compress_bytes: the pixel bytes not yet read
    bitmap,
    min_non_zero,
    max_non_zero,
    max_value,
    lookup_table,
    remaining_input,    \* decompress_bytes: the compressed bytes not yet read
    length,             \* decompress_bytes: the length field read from the block
    output,             \* compress_bytes: output
    out,                \* decompress_bytes: out
    result,             \* what the running function returned, or how it aborted
    stages,             \* history: the stages run so far, in order
    collaborator_error, \* history: the failure a collaborator reported, if any
    args,               \* arguments of a helper called on its own
    ret                 \* its return value

vars == << pc, channels, rectangle, bytes, compressed, expected_byte_size,
           debug_assertions, target_endian, roundtrip, tmp, channel_data, row_y,
           channel_index, offset, byte_read, bitmap, min_non_zero, max_non_zero,
           max_value, lookup_table, remaining_input, length, output, out, result,
           stages, collaborator_error, args, ret >>

codec_vars == << channels, rectangle, bytes, compressed, expected_byte_size,
                 debug_assertions, target_endian, roundtrip, tmp, channel_data, row_y,
                 channel_index, offset, byte_read, bitmap, min_non_zero,
                 max_non_zero, max_value, lookup_table, remaining_input, length, output,
                 out, result, stages, collaborator_error >>

----------------------------------------------------------------------------
(* Constants of the program.                                               *)

U16_RANGE == 65536

BITMAP_SIZE == U16_RANGE \div 8

----------------------------------------------------------------------------
(* Bounds of the model.                                                    *)

MaxWidth == 2

MaxHeight == 3

MaxDivArg == 8

----------------------------------------------------------------------------
(* Generic helpers.                                                        *)

Range(s) == { s[i] : i \in DOMAIN s }

Abs(n) == IF n < 0 THEN -n ELSE n

Min(S) == CHOOSE m \in S : \A n \in S : m <= n

Max(S) == CHOOSE m \in S : \A n \in S : m >= n

RECURSIVE Ascending(_)
Ascending(S) ==
    IF S = {} THEN << >> ELSE << Min(S) >> \o Ascending(S \ { Min(S) })

RECURSIVE Flatten(_)
Flatten(ss) == IF ss = << >> THEN << >> ELSE Head(ss) \o Flatten(Tail(ss))

Zeros(n) == [ i \in 1..n |-> 0 ]

\* s[from .. to) with 0-based bounds, as a Rust slice
Slice(s, from, to) == SubSeq(s, from + 1, to)

\* s with s[from .. from + Len(part)) replaced by part (0-based from)
Splice(s, from, part) ==
    [ i \in DOMAIN s |->
        IF i > from /\ i <= from + Len(part) THEN part[i - from] ELSE s[i] ]

\* entry of a sparsely held array
EntryAt(table, index) == IF index \in DOMAIN table THEN table[index] ELSE 0

ByteAt(bm, index) == EntryAt(bm, index)

\* a sparsely held array without its zero entries
Sparse(f) == [ i \in { j \in DOMAIN f : f[j] # 0 } |-> f[i] ]

NoResult == [ kind |-> "none", value |-> << >>, error |-> "" ]

Ok(v) == [ kind |-> "Ok", value |-> v, error |-> "" ]

Err(e) == [ kind |-> "Err", value |-> << >>, error |-> e ]

Panic(at) == [ kind |-> "panic", value |-> << >>, error |-> at ]

\* Error::invalid("compression data")
InvalidCompressionData == "invalid compression data"

----------------------------------------------------------------------------
(* div_p, mod_p.                                                           *)

\* the / of Rust on i32: the quotient truncated toward zero
TruncDiv(a, b) ==
    IF (a >= 0) = (b > 0) THEN Abs(a) \div Abs(b) ELSE -(Abs(a) \div Abs(b))

div_p_truncating(x, y) == TruncDiv(x, y)

div_p_floor_for_negative_y(x, y) ==
    IF y >= 0
    THEN IF x >= 0 THEN TruncDiv(x, y) ELSE -TruncDiv(y - 1 - x, y)
    ELSE IF x >= 0 THEN -TruncDiv(x - y - 1, -y) ELSE TruncDiv(-x, -y)

div_p(x, y) ==
    IF x >= 0
    THEN IF y >= 0 THEN TruncDiv(x, y)
                   ELSE -TruncDiv(x, -y)
    ELSE IF y >= 0 THEN -TruncDiv(y - 1 - x, y)
                   ELSE TruncDiv(-y - 1 - x, -y)

mod_p(x, y) == x - y * div_p(x, y)

----------------------------------------------------------------------------
(* Occupancy bitmap and lookup tables.                                     *)

\* bitmap[index >> 3] & (1 << (index & 7)) != 0
BitIsSet(bm, index) == (ByteAt(bm, index \div 8) \div (2 ^ (index % 8))) % 2 = 1

\* the byte with exactly the bits of K set
ByteOfBits(K) ==
    LET b(k) == IF k \in K THEN 2 ^ k ELSE 0
    IN  b(0) + b(1) + b(2) + b(3) + b(4) + b(5) + b(6) + b(7)

\* the indices at which the table loops find a present value: 0 and every set bit
PresentIndices(bm) ==
    { 0 } \cup UNION { { 8 * b + k : k \in { j \in 0..7 : (bm[b] \div (2 ^ j)) % 2 = 1 } }
                       : b \in DOMAIN bm }

bitmap_from_data_keeping_zero(data) ==
    LET marked == [ b \in { v \div 8 : v \in Range(data) } |->
                      ByteOfBits({ v % 8 : v \in { w \in Range(data) : w \div 8 = b } }) ]
        nonzero == DOMAIN marked
        min == IF nonzero = {} THEN BITMAP_SIZE - 1 ELSE Min(nonzero)
        max == IF nonzero = {} THEN 0 ELSE Max(nonzero)
    IN  [ min |-> min, max |-> max, bitmap |-> marked ]

bitmap_from_data(data) ==
    LET \* bitmap[value >> 3] |= 1 << (value & 7), for every value
        marked == [ b \in { v \div 8 : v \in Range(data) } |->
                      ByteOfBits({ v % 8 : v \in { w \in Range(data) : w \div 8 = b } }) ]
        \* bitmap[0] = bitmap[0] & !1
        cleared == Sparse([ b \in DOMAIN marked |->
                      IF b = 0 /\ marked[b] % 2 = 1 THEN marked[b] - 1 ELSE marked[b] ])
        nonzero == DOMAIN cleared
        \* min starts at bitmap.len() - 1 and max at 0
        min == IF nonzero = {} THEN BITMAP_SIZE - 1 ELSE Min(nonzero \cup { BITMAP_SIZE - 1 })
        max == IF nonzero = {} THEN 0 ELSE Max(nonzero \cup { 0 })
    IN  [ min |-> min, max |-> max, bitmap |-> cleared ]

\* the loop of forward_lookup_table_from_bitmap over the present indices, in order
RECURSIVE ForwardWalk(_, _, _)
ForwardWalk(indices, count, table) ==
    IF indices = << >>
    THEN [ count |-> count, table |-> table ]
    ELSE ForwardWalk(Tail(indices), count + 1,
                     table @@ (Head(indices) :> (count % U16_RANGE)))

forward_lookup_table_skipping_zero(bm) ==
    LET walk == ForwardWalk(Ascending(PresentIndices(bm) \ { 0 }), 0, << >>)
    IN  [ max_value |-> (walk.count - 1) % U16_RANGE, table |-> Sparse(walk.table) ]

forward_lookup_table_from_bitmap(bm) ==
    LET walk == ForwardWalk(Ascending(PresentIndices(bm)), 0, << >>)
    IN  [ max_value |-> (walk.count - 1) % U16_RANGE, table |-> Sparse(walk.table) ]

reverse_lookup_table_short_max(bm) ==
    LET pushed == Ascending(PresentIndices(bm))
    IN  [ table |-> Sparse([ k \in 0..(Len(pushed) - 1) |-> pushed[k + 1] ]),
          max_value |-> (Len(pushed) - 2) % U16_RANGE ]

reverse_lookup_table_from_bitmap(bm) ==
    LET \* table.push(index) for every present index
        pushed == Ascending(PresentIndices(bm))
        \* table.resize(U16_RANGE, 0): the tail is zero
    IN  [ table |-> Sparse([ k \in 0..(Len(pushed) - 1) |-> pushed[k + 1] ]),
          max_value |-> (Len(pushed) - 1) % U16_RANGE ]

apply_lookup_table(data, table) == [ k \in DOMAIN data |-> EntryAt(table, data[k]) ]

----------------------------------------------------------------------------
(* crate::meta::attributes and crate::math, after spec.md section 3.       *)

SampleTypes == { "F16", "F32", "U32" }

\* SampleType::bytes_per_sample
bytes_per_sample(sample_type) == IF sample_type = "F16" THEN 2 ELSE 4

\* Channel::subsampled_resolution: (w, h / y_sampling), x sampling being 1
subsampled_resolution(channel, size) ==
    [ x |-> size.x \div channel.sampling.x, y |-> size.y \div channel.sampling.y ]

\* Vec2::area
area(v) == v.x * v.y

\* IntRect::end
rectangle_end(r) ==
    [ x |-> r.position.x + r.size.x, y |-> r.position.y + r.size.y ]

RECURSIVE Sum(_)
Sum(s) == IF s = << >> THEN 0 ELSE Head(s) + Sum(Tail(s))

\* ChannelList::bytes_per_pixel
bytes_per_pixel(chs) ==
    Sum([ i \in DOMAIN chs |-> bytes_per_sample(chs[i].sample_type) ])

----------------------------------------------------------------------------
(* crate::io::Data and lebe: integers to and from bytes, after spec.md     *)
(* sections 4.1 and 6.                                                     *)

u16_to_le(v) == << v % 256, v \div 256 >>

u16_from_le(b) == b[1] + 256 * b[2]

u16_to_native(v) ==
    IF target_endian = "little" THEN << v % 256, v \div 256 >>
                                ELSE << v \div 256, v % 256 >>

u16_from_native(b) ==
    IF target_endian = "little" THEN b[1] + 256 * b[2] ELSE 256 * b[1] + b[2]

\* n as i32 written little-endian (two's complement)
i32_to_le(n) ==
    LET low == n % 16777216
        high == ((n - low) \div 16777216) % 256
    IN  << low % 256, (low \div 256) % 256, low \div 65536, high >>

\* the top byte carries the sign
i32_from_le(b) ==
    b[1] + 256 * b[2] + 65536 * b[3]
        + 16777216 * (IF b[4] >= 128 THEN b[4] - 256 ELSE b[4])

\* the u16 values held by 2 * n bytes
u16s_from_le(b) == [ k \in 1..(Len(b) \div 2) |-> u16_from_le(SubSeq(b, 2 * k - 1, 2 * k)) ]

u16s_from_native(b) ==
    [ k \in 1..(Len(b) \div 2) |-> u16_from_native(SubSeq(b, 2 * k - 1, 2 * k)) ]

u16s_to_le(values) == Flatten([ k \in DOMAIN values |-> u16_to_le(values[k]) ])

u16s_to_native(values) == Flatten([ k \in DOMAIN values |-> u16_to_native(values[k]) ])

----------------------------------------------------------------------------
(* The huffman collaborator, after its contract in spec.md section 4.4:    *)
(* compress gives a self-delimited stream holding the exact sequence,      *)
(* decompress rejects a stream that does not hold output.len() values.     *)

huffman_compress(data) ==
    << Len(data) % 256 >> \o
        Flatten([ k \in DOMAIN data |-> << data[k] \div 256, data[k] % 256 >> ])

huffman_decompress(input, output_len) ==
    IF Len(input) = 1 + 2 * output_len /\ input[1] = output_len % 256
    THEN Ok([ k \in 1..output_len |-> 256 * input[2 * k] + input[2 * k + 1] ])
    ELSE Err("huffman: invalid or truncated stream")

----------------------------------------------------------------------------
(* The wavelet collaborator, after its contract in spec.md section 4.3: a  *)
(* lifting step on the pairs of one lane, a bijection on [0, max_value]    *)
(* whose inverse is decode; decode rejects a value above max_value.        *)

\* 1-based place in the slice of sample k of the lane (row-major)
LanePlace(k, resolution, stride) ==
    (k % resolution.x) * stride.x + (k \div resolution.x) * stride.y + 1

wavelet_encode(slice, resolution, stride, maximum) ==
    LET n == area(resolution)
        place(k) == LanePlace(k, resolution, stride)
    IN  IF \E k \in 0..(n - 1) : place(k) > Len(slice)
        THEN Panic("wavelet::encode: index out of bounds")
        ELSE Ok([ i \in DOMAIN slice |->
                    IF \E k \in 0..(n - 1) : k % 2 = 1 /\ place(k) = i
                    THEN LET k == CHOOSE j \in 0..(n - 1) : j % 2 = 1 /\ place(j) = i
                         IN  (slice[i] - slice[place(k - 1)]) % (maximum + 1)
                    ELSE slice[i] ])

wavelet_decode(slice, resolution, stride, maximum) ==
    LET n == area(resolution)
        place(k) == LanePlace(k, resolution, stride)
    IN  IF \E k \in 0..(n - 1) : place(k) > Len(slice)
        THEN Panic("wavelet::decode: index out of bounds")
        ELSE IF \E k \in 0..(n - 1) : slice[place(k)] > maximum
        THEN Err("wavelet: value out of range")
        ELSE Ok([ i \in DOMAIN slice |->
                    IF \E k \in 0..(n - 1) : k % 2 = 1 /\ place(k) = i
                    THEN LET k == CHOOSE j \in 0..(n - 1) : j % 2 = 1 /\ place(j) = i
                         IN  (slice[i] + slice[place(k - 1)]) % (maximum + 1)
                    ELSE slice[i] ])

----------------------------------------------------------------------------
(* Parts shared by compress_bytes and decompress_bytes.                    *)

\* the loop that builds channel_data, tmp_end_index running from start
RECURSIVE new_channel_data(_, _, _)
new_channel_data(chs, size, start) ==
    IF chs = << >>
    THEN << >>
    ELSE LET channel == Head(chs)
             number_samples == subsampled_resolution(channel, size)
             byte_size == bytes_per_sample(channel.sample_type) \div bytes_per_sample("F16")
             byte_count == byte_size * area(number_samples)
         IN  << [ tmp_start_index |-> start,
                  tmp_end_index |-> start,
                  y_sampling |-> channel.sampling.y,
                  resolution |-> number_samples,
                  samples_per_pixel |-> byte_size ] >>
             \o new_channel_data(Tail(chs), size, start + byte_count)

\* tmp_end_index / tmp_read_index after that loop
SegmentsEnd(data) ==
    Sum([ i \in DOMAIN data |-> area(data[i].resolution) * data[i].samples_per_pixel ])

has_only_half_channels(chs) == \A i \in DOMAIN chs : chs[i].sample_type = "F16"

format(chs) == IF has_only_half_channels(chs) THEN "Native" ELSE "Independent"

\* mod_p(y, channel.y_sampling as i32) == 0
RowAdmitted(row, channel) == mod_p(row, channel.y_sampling) = 0

\* the (row, channel) visited after (row, index) by the two nested loops
NextRowChannel(row, index) ==
    IF index < Len(channels) THEN << row, index + 1 >> ELSE << row + 1, 1 >>

\* the (channel, lane) visited after (index, lane) by the wavelet loops; the
\* channel is Len(channels) + 1 when the loops are over
NextChannelLane(index, lane) ==
    IF lane + 1 < channel_data[index].samples_per_pixel
    THEN << index, lane + 1 >>
    ELSE << index + 1, 0 >>

Stage(name, index, lane) == [ stage |-> name, channel |-> index, lane |-> lane ]

----------------------------------------------------------------------------
(* The state of the codec before any call.                                 *)

CodecIdle ==
    /\ channels = << >>
    /\ rectangle = [ position |-> [ x |-> 0, y |-> 0 ], size |-> [ x |-> 0, y |-> 0 ] ]
    /\ bytes = << >>
    /\ compressed = << >>
    /\ expected_byte_size = 0
    /\ debug_assertions = FALSE
    /\ target_endian = "little"
    /\ roundtrip = FALSE
    /\ tmp = << >>
    /\ channel_data = << >>
    /\ row_y = 0
    /\ channel_index = 1
    /\ offset = 0
    /\ byte_read = << >>
    /\ bitmap = << >>
    /\ min_non_zero = 0
    /\ max_non_zero = 0
    /\ max_value = 0
    /\ lookup_table = << >>
    /\ remaining_input = << >>
    /\ length = 0
    /\ output = << >>
    /\ out = << >>
    /\ result = NoResult
    /\ stages = << >>
    /\ collaborator_error = ""

----------------------------------------------------------------------------
(* div_p and mod_p called on their own.                                    *)

DivArgs == (-MaxDivArg)..MaxDivArg

InitDivP ==
    /\ pc = "div_p"
    /\ args \in [ x : DivArgs, y : DivArgs ]
    /\ ret = << >>
    /\ CodecIdle

\* x / 0 aborts the program
call_div_p ==
    /\ pc = "div_p"
    /\ IF args.y = 0
       THEN pc' = "panicked" /\ ret' = ret
       ELSE pc' = "mod_p" /\ ret' = << div_p(args.x, args.y) >>
    /\ UNCHANGED << args, codec_vars >>

call_mod_p ==
    /\ pc = "mod_p"
    /\ pc' = "returned"
    /\ ret' = Append(ret, mod_p(args.x, args.y))
    /\ UNCHANGED << args, codec_vars >>

NextDivP == call_div_p \/ call_mod_p

SpecDivP == InitDivP /\ [][NextDivP]_vars

----------------------------------------------------------------------------
(* bitmap_from_data and the two table builders called on their own.        *)

MaxData == 2

TableValues == { 0, 1, 7, 8, 65528, 65535 }

TableData == UNION { [ 1..n -> TableValues ] : n \in 0..MaxData }

\* bitmaps as decompress_bytes may read them from a block: bit 0 may be set
GivenBitmaps ==
    { (0 :> 1), (0 :> 255), (0 :> 1) @@ (8191 :> 128), (5 :> 3), (8191 :> 255) }

NoTables == [ built |-> << >>, forward |-> << >>, reverse |-> << >> ]

InitTables ==
    /\ \/ /\ pc = "bitmap_from_data"
          /\ args \in { [ data |-> d, bitmap |-> << >> ] : d \in TableData }
       \/ /\ pc = "forward_lookup_table_from_bitmap"
          /\ args \in { [ data |-> << >>, bitmap |-> bm ] : bm \in GivenBitmaps }
    /\ ret = NoTables
    /\ CodecIdle

call_bitmap_from_data ==
    /\ pc = "bitmap_from_data"
    /\ LET built == bitmap_from_data(args.data)
       IN  /\ ret' = [ ret EXCEPT !.built = << built >> ]
           /\ args' = [ args EXCEPT !.bitmap = built.bitmap ]
    /\ pc' = "forward_lookup_table_from_bitmap"
    /\ UNCHANGED codec_vars

call_forward_lookup_table_from_bitmap ==
    /\ pc = "forward_lookup_table_from_bitmap"
    /\ ret' = [ ret EXCEPT !.forward = << forward_lookup_table_from_bitmap(args.bitmap) >> ]
    /\ pc' = "reverse_lookup_table_from_bitmap"
    /\ UNCHANGED << args, codec_vars >>

call_reverse_lookup_table_from_bitmap ==
    /\ pc = "reverse_lookup_table_from_bitmap"
    /\ ret' = [ ret EXCEPT !.reverse = << reverse_lookup_table_from_bitmap(args.bitmap) >> ]
    /\ pc' = "tables_returned"
    /\ UNCHANGED << args, codec_vars >>

NextTables ==
    \/ call_bitmap_from_data
    \/ call_forward_lookup_table_from_bitmap
    \/ call_reverse_lookup_table_from_bitmap

SpecTables == InitTables /\ [][NextTables]_vars

----------------------------------------------------------------------------
(* compress_bytes.                                                         *)

inputs == << channels, rectangle, bytes, compressed, expected_byte_size,
             debug_assertions, target_endian, roundtrip >>

harness == << args, ret >>

\* the order of the statements of compress_bytes after its set-up
compress_order_lookup_after_wavelet ==
    << "interleave", "bitmap_from_data", "wavelet_encode", "write_header",
       "forward_lookup", "huffman_compress", "compress_returned" >>

compress_order ==
    << "interleave", "bitmap_from_data", "forward_lookup", "write_header",
       "wavelet_encode", "huffman_compress", "compress_returned" >>

\* the order of the statements of decompress_bytes after its set-up
decompress_order ==
    << "read_header", "read_bitmap", "read_length", "huffman_decompress",
       "wavelet_decode", "reverse_lookup", "deinterleave", "finish",
       "decompress_returned" >>

\* the statement after `label` in `order`
After(order, label) ==
    order[1 + CHOOSE i \in 1..(Len(order) - 1) : order[i] = label]

\* the statement after `label`, a loop over no row or no channel being skipped
RECURSIVE Following(_, _)
Following(order, label) ==
    LET next == After(order, label)
        rows == rectangle_end(rectangle).y - rectangle.position.y
    IN  IF next \in { "interleave", "deinterleave" } /\ rows <= 0
        THEN Following(order, next)
        ELSE next

\* lines 178-214: the empty block, tmp, channel_data and its assertion
compress_begin ==
    /\ pc = "compress_bytes"
    /\ IF bytes = << >>
       THEN /\ result' = Ok(<< >>)
            /\ pc' = "compress_returned"
            /\ UNCHANGED << tmp, channel_data, row_y, byte_read >>
       ELSE LET data == new_channel_data(channels, rectangle.size, 0)
            IN  /\ tmp' = Zeros(Len(bytes) \div 2)
                /\ channel_data' = data
                /\ row_y' = rectangle.position.y
                /\ byte_read' = bytes
                /\ IF debug_assertions /\ SegmentsEnd(data) # Len(bytes) \div 2
                   THEN /\ pc' = "panicked"
                        /\ result' = Panic("debug_assert_eq!(tmp_end_index, tmp.len())")
                   ELSE /\ pc' = Following(<< "compress_bytes" >> \o compress_order,
                                           "compress_bytes")
                        /\ result' = result
    /\ channel_index' = 1
    /\ offset' = 0
    /\ UNCHANGED << inputs, harness, bitmap, min_non_zero, max_non_zero, max_value,
                    lookup_table, remaining_input, length, output, out, stages,
                    collaborator_error >>

\* lines 217-234: one pass of the body of the two row loops
compress_interleave ==
    /\ pc = "interleave"
    /\ LET channel == channel_data[channel_index]
           next == NextRowChannel(row_y, channel_index)
           u16s_per_line == channel.resolution.x * channel.samples_per_pixel
           next_tmp_end_index == channel.tmp_end_index + u16s_per_line
           taken == SubSeq(byte_read, 1, 2 * u16s_per_line)
           target == IF format(channels) = "Independent"
                     THEN u16s_from_le(taken)
                     ELSE u16s_from_native(taken)
           go_on == /\ row_y' = next[1]
                    /\ channel_index' = next[2]
                    /\ pc' = IF next[1] < rectangle_end(rectangle).y
                             THEN "interleave"
                             ELSE After(compress_order, "interleave")
                    /\ result' = result
           abort(at) == /\ pc' = "panicked"
                        /\ result' = Panic(at)
                        /\ UNCHANGED << row_y, channel_index >>
       IN  IF ~ RowAdmitted(row_y, channel)
           THEN go_on /\ UNCHANGED << tmp, byte_read, channel_data, stages >>
           ELSE IF next_tmp_end_index > Len(tmp)
           THEN /\ abort("tmp[channel.tmp_end_index .. next_tmp_end_index]: out of range")
                /\ UNCHANGED << tmp, byte_read, channel_data, stages >>
           ELSE IF Len(byte_read) < 2 * u16s_per_line
           THEN /\ abort("in-memory read failed")
                /\ UNCHANGED << tmp, byte_read, channel_data, stages >>
           ELSE /\ go_on
                /\ tmp' = Splice(tmp, channel.tmp_end_index, target)
                /\ byte_read' = SubSeq(byte_read, 2 * u16s_per_line + 1, Len(byte_read))
                /\ channel_data' = [ channel_data EXCEPT
                                       ![channel_index].tmp_end_index = next_tmp_end_index ]
                /\ stages' = Append(stages, Stage("interleave", channel_index, 0))
    /\ UNCHANGED << inputs, harness, offset, bitmap, min_non_zero, max_non_zero,
                    max_value, lookup_table, remaining_input, length, output, out,
                    collaborator_error >>

\* line 237
compress_bitmap ==
    /\ pc = "bitmap_from_data"
    /\ LET built == bitmap_from_data(tmp)
       IN  /\ min_non_zero' = built.min
           /\ max_non_zero' = built.max
           /\ bitmap' = built.bitmap
    /\ stages' = Append(stages, Stage("bitmap_from_data", 0, 0))
    /\ pc' = After(compress_order, "bitmap_from_data")
    /\ UNCHANGED << inputs, harness, tmp, channel_data, row_y, channel_index, offset,
                    byte_read, max_value, lookup_table, remaining_input, length, output, out,
                    result, collaborator_error >>

\* lines 238-239
compress_lookup ==
    /\ pc = "forward_lookup"
    /\ LET built == forward_lookup_table_from_bitmap(bitmap)
       IN  /\ max_value' = built.max_value
           /\ lookup_table' = built.table
           /\ tmp' = apply_lookup_table(tmp, built.table)
    /\ stages' = Append(stages, Stage("forward_lookup", 0, 0))
    /\ pc' = After(compress_order, "forward_lookup")
    /\ UNCHANGED << inputs, harness, channel_data, row_y, channel_index, offset,
                    byte_read, bitmap, min_non_zero, max_non_zero, remaining_input, length,
                    output, out, result, collaborator_error >>

\* bitmap[min ..= max] as bytes
BitmapSlice(bm, min, max) == [ i \in 1..(max - min + 1) |-> ByteAt(bm, min + i - 1) ]

header_bitmap_exclusive(min, max, bm) ==
    u16_to_le(min % U16_RANGE) \o u16_to_le(max % U16_RANGE) \o
        (IF min <= max THEN BitmapSlice(bm, min, max - 1) ELSE << >>)

\* lines 241-247: the bytes written before the wavelet loops
header(min, max, bm) ==
    u16_to_le(min % U16_RANGE) \o u16_to_le(max % U16_RANGE) \o
        (IF min <= max THEN BitmapSlice(bm, min, max) ELSE << >>)

compress_header ==
    /\ pc = "write_header"
    /\ output' = header(min_non_zero, max_non_zero, bitmap)
    /\ pc' = After(compress_order, "write_header")
    /\ UNCHANGED << inputs, harness, tmp, channel_data, row_y, channel_index, offset,
                    byte_read, bitmap,
                    min_non_zero, max_non_zero, max_value, lookup_table,
                    remaining_input, length, out, result, stages, collaborator_error >>

\* lines 249-258: one pass of the body of the channel and lane loops
compress_wavelet ==
    /\ pc = "wavelet_encode"
    /\ LET channel == channel_data[channel_index]
           from == channel.tmp_start_index + offset
           to == channel.tmp_end_index
           next == NextChannelLane(channel_index, offset)
           encoded == wavelet_encode(
                          Slice(tmp, from, to), channel.resolution,
                          [ x |-> channel.samples_per_pixel,
                            y |-> channel.resolution.x * channel.samples_per_pixel ],
                          max_value)
       IN  IF from > to \/ to > Len(tmp)
           THEN /\ pc' = "panicked"
                /\ result' = Panic("tmp[channel.tmp_start_index + offset .. channel.tmp_end_index]: out of range")
                /\ UNCHANGED << tmp, channel_index, offset, stages >>
           ELSE IF encoded.kind # "Ok"
           THEN /\ pc' = IF encoded.kind = "panic" THEN "panicked" ELSE "compress_returned"
                /\ result' = encoded
                /\ UNCHANGED << tmp, channel_index, offset, stages >>
           ELSE /\ tmp' = Splice(tmp, from, encoded.value)
                /\ stages' = Append(stages, Stage("wavelet::encode", channel_index, offset))
                /\ IF next[1] <= Len(channel_data)
                   THEN /\ pc' = "wavelet_encode"
                        /\ channel_index' = next[1]
                        /\ offset' = next[2]
                   ELSE /\ pc' = After(compress_order, "wavelet_encode")
                        /\ channel_index' = 1
                        /\ offset' = 0
                /\ result' = result
    /\ UNCHANGED << inputs, harness, channel_data, row_y, byte_read, bitmap,
                    min_non_zero, max_non_zero, max_value, lookup_table,
                    remaining_input, length, output, out, collaborator_error >>

\* lines 260-264
compress_huffman ==
    /\ pc = "huffman_compress"
    /\ LET huffman_compressed == huffman_compress(tmp)
           written == output \o i32_to_le(Len(huffman_compressed)) \o huffman_compressed
       IN  /\ output' = written
           /\ result' = Ok(written)
    /\ stages' = Append(stages, Stage("huffman::compress", 0, 0))
    /\ pc' = After(compress_order, "huffman_compress")
    /\ UNCHANGED << inputs, harness, tmp, channel_data, row_y, channel_index, offset,
                    byte_read, bitmap, min_non_zero, max_non_zero, max_value,
                    lookup_table, remaining_input, length, out, collaborator_error >>

----------------------------------------------------------------------------
(* decompress_bytes.                                                       *)

Drop(s, n) == SubSeq(s, n + 1, Len(s))

\* lines 44-69: the empty block, tmp_buffer, channel_data and its assertion
decompress_begin ==
    /\ pc = "decompress_bytes"
    /\ IF compressed = << >>
       THEN /\ result' = Ok(<< >>)
            /\ pc' = "decompress_returned"
            /\ UNCHANGED << tmp, channel_data, row_y >>
       ELSE LET data == new_channel_data(channels, rectangle.size, 0)
            IN  /\ tmp' = Zeros(expected_byte_size \div 2)
                /\ channel_data' = data
                /\ row_y' = rectangle.position.y
                /\ IF debug_assertions /\ SegmentsEnd(data) # expected_byte_size \div 2
                   THEN /\ pc' = "panicked"
                        /\ result' = Panic("debug_assert_eq!(tmp_read_index, tmp_buffer.len())")
                   ELSE /\ pc' = "read_header"
                        /\ result' = result
    /\ channel_index' = 1
    /\ offset' = 0
    /\ UNCHANGED << inputs, harness, byte_read, bitmap, min_non_zero, max_non_zero,
                    max_value, lookup_table, remaining_input, length, output, out,
                    stages, collaborator_error >>

bitmap_size_exceeded_above_only(max) == max > BITMAP_SIZE

\* line 78
bitmap_size_exceeded(max) == max >= BITMAP_SIZE

\* lines 71-81: the zeroed bitmap, min_non_zero, max_non_zero and their check
decompress_header ==
    /\ pc = "read_header"
    /\ bitmap' = << >>
    /\ IF Len(compressed) < 2
       THEN /\ pc' = "panicked"
            /\ result' = Panic("u16::read(&mut remaining_input).unwrap()")
            /\ remaining_input' = compressed
            /\ UNCHANGED << min_non_zero, max_non_zero >>
       ELSE IF Len(compressed) < 4
       THEN /\ pc' = "panicked"
            /\ result' = Panic("u16::read(&mut remaining_input).unwrap()")
            /\ remaining_input' = Drop(compressed, 2)
            /\ min_non_zero' = u16_from_le(SubSeq(compressed, 1, 2))
            /\ UNCHANGED max_non_zero
       ELSE LET max == u16_from_le(SubSeq(compressed, 3, 4))
            IN  /\ min_non_zero' = u16_from_le(SubSeq(compressed, 1, 2))
                /\ max_non_zero' = max
                /\ remaining_input' = Drop(compressed, 4)
                /\ IF bitmap_size_exceeded(max)
                   THEN /\ pc' = "decompress_returned"
                        /\ result' = Err(InvalidCompressionData)
                   ELSE /\ pc' = Following(decompress_order, "read_header")
                        /\ result' = result
    /\ UNCHANGED << inputs, harness, tmp, channel_data, row_y, channel_index, offset,
                    byte_read, max_value, lookup_table, length, output, out, stages,
                    collaborator_error >>

\* lines 83-88: the bitmap bytes and the reverse lookup table
decompress_bitmap ==
    /\ pc = "read_bitmap"
    /\ LET count == IF min_non_zero <= max_non_zero
                    THEN max_non_zero - min_non_zero + 1
                    ELSE 0
           read == Sparse([ b \in min_non_zero..max_non_zero |->
                              remaining_input[b - min_non_zero + 1] ])
           built == reverse_lookup_table_from_bitmap(read)
       IN  IF min_non_zero <= max_non_zero /\ max_non_zero >= BITMAP_SIZE
           THEN /\ pc' = "panicked"
                /\ result' = Panic("bitmap[min_non_zero ..= max_non_zero]: out of range")
                /\ UNCHANGED << bitmap, remaining_input, lookup_table, max_value >>
           ELSE IF Len(remaining_input) < count
           THEN /\ pc' = "panicked"
                /\ result' = Panic("u8::read_slice(&mut remaining_input, ..).unwrap()")
                /\ UNCHANGED << bitmap, remaining_input, lookup_table, max_value >>
           ELSE /\ bitmap' = read
                /\ remaining_input' = Drop(remaining_input, count)
                /\ lookup_table' = built.table
                /\ max_value' = built.max_value
                /\ pc' = Following(decompress_order, "read_bitmap")
                /\ result' = result
    /\ UNCHANGED << inputs, harness, tmp, channel_data, row_y, channel_index, offset,
                    byte_read, min_non_zero, max_non_zero, length, output, out, stages,
                    collaborator_error >>

\* line 93: length < 0 || length as usize > remaining_input.len()
length_is_invalid(len, remaining) == len < 0 \/ len > remaining

\* lines 90-96: the length field and its check
decompress_length ==
    /\ pc = "read_length"
    /\ IF Len(remaining_input) < 4
       THEN /\ pc' = "panicked"
            /\ result' = Panic("i32::read(&mut remaining_input).unwrap()")
            /\ UNCHANGED << remaining_input, length >>
       ELSE LET read == i32_from_le(SubSeq(remaining_input, 1, 4))
            IN  /\ length' = read
                /\ remaining_input' = Drop(remaining_input, 4)
                /\ IF length_is_invalid(read, Len(remaining_input) - 4)
                   THEN /\ pc' = "decompress_returned"
                        /\ result' = Err(InvalidCompressionData)
                   ELSE /\ pc' = Following(decompress_order, "read_length")
                        /\ result' = result
    /\ UNCHANGED << inputs, harness, tmp, channel_data, row_y, channel_index, offset,
                    byte_read, bitmap, min_non_zero, max_non_zero, max_value,
                    lookup_table, output, out, stages, collaborator_error >>

\* line 99: huffman::decompress(..).unwrap()
decompress_huffman ==
    /\ pc = "huffman_decompress"
    /\ LET decoded == huffman_decompress(SubSeq(remaining_input, 1, length), Len(tmp))
       IN  IF decoded.kind = "Ok"
           THEN /\ tmp' = decoded.value
                /\ pc' = Following(decompress_order, "huffman_decompress")
                /\ UNCHANGED << result, collaborator_error >>
           ELSE /\ collaborator_error' = decoded.error
                /\ pc' = "panicked"
                /\ result' = Panic("huffman::decompress(..).unwrap()")
                /\ tmp' = tmp
    /\ stages' = Append(stages, Stage("huffman::decompress", 0, 0))
    /\ UNCHANGED << inputs, harness, channel_data, row_y, channel_index, offset,
                    byte_read, bitmap, min_non_zero, max_non_zero, max_value,
                    lookup_table, remaining_input, length, output, out >>

\* lines 102-116: one pass of the body of the channel and lane loops
decompress_wavelet ==
    /\ pc = "wavelet_decode"
    /\ LET channel == channel_data[channel_index]
           u16_count == area(channel.resolution) * channel.samples_per_pixel
           from == channel.tmp_start_index
           next == NextChannelLane(channel_index, offset)
           decoded == wavelet_decode(
                          Slice(tmp, from + offset, from + u16_count), channel.resolution,
                          [ x |-> channel.samples_per_pixel,
                            y |-> channel.resolution.x * channel.samples_per_pixel ],
                          max_value)
       IN  IF from + u16_count > Len(tmp) \/ offset > u16_count
           THEN /\ pc' = "panicked"
                /\ result' = Panic("tmp_buffer[channel.tmp_start_index ..][offset ..]: out of range")
                /\ UNCHANGED << tmp, channel_index, offset, stages, collaborator_error >>
           ELSE IF decoded.kind # "Ok"
           THEN /\ pc' = IF decoded.kind = "panic" THEN "panicked" ELSE "decompress_returned"
                /\ result' = decoded
                /\ collaborator_error' = IF decoded.kind = "Err" THEN decoded.error ELSE ""
                /\ stages' = Append(stages, Stage("wavelet::decode", channel_index, offset))
                /\ UNCHANGED << tmp, channel_index, offset >>
           ELSE /\ tmp' = Splice(tmp, from + offset, decoded.value)
                /\ stages' = Append(stages, Stage("wavelet::decode", channel_index, offset))
                /\ IF next[1] <= Len(channel_data)
                   THEN /\ pc' = "wavelet_decode"
                        /\ channel_index' = next[1]
                        /\ offset' = next[2]
                   ELSE /\ pc' = Following(decompress_order, "wavelet_decode")
                        /\ channel_index' = 1
                        /\ offset' = 0
                /\ UNCHANGED << result, collaborator_error >>
    /\ UNCHANGED << inputs, harness, channel_data, row_y, byte_read, bitmap,
                    min_non_zero, max_non_zero, max_value, lookup_table,
                    remaining_input, length, output, out >>

\* line 119
decompress_lookup ==
    /\ pc = "reverse_lookup"
    /\ tmp' = apply_lookup_table(tmp, lookup_table)
    /\ stages' = Append(stages, Stage("reverse_lookup", 0, 0))
    /\ pc' = Following(decompress_order, "reverse_lookup")
    /\ UNCHANGED << inputs, harness, channel_data, row_y, channel_index, offset,
                    byte_read, bitmap, min_non_zero, max_non_zero, max_value,
                    lookup_table, remaining_input, length, output, out, result,
                    collaborator_error >>

\* lines 136-158: one pass of the body of the two row loops
decompress_deinterleave ==
    /\ pc = "deinterleave"
    /\ LET channel == channel_data[channel_index]
           next == NextRowChannel(row_y, channel_index)
           u16s_per_line == channel.resolution.x * channel.samples_per_pixel
           next_tmp_end_index == channel.tmp_end_index + u16s_per_line
           values == Slice(tmp, channel.tmp_end_index, next_tmp_end_index)
           written == IF format(channels) = "Independent"
                      THEN u16s_to_le(values)
                      ELSE u16s_to_native(values)
           go_on == /\ row_y' = next[1]
                    /\ channel_index' = next[2]
                    /\ pc' = IF next[1] < rectangle_end(rectangle).y
                             THEN "deinterleave"
                             ELSE Following(decompress_order, "deinterleave")
                    /\ result' = result
       IN  IF ~ RowAdmitted(row_y, channel)
           THEN go_on /\ UNCHANGED << out, channel_data, stages >>
           ELSE IF next_tmp_end_index > Len(tmp)
           THEN /\ pc' = "panicked"
                /\ result' = Panic("tmp_buffer[channel.tmp_end_index .. next_tmp_end_index]: out of range")
                /\ UNCHANGED << row_y, channel_index, out, channel_data, stages >>
           ELSE /\ go_on
                /\ out' = out \o written
                /\ channel_data' = [ channel_data EXCEPT
                                       ![channel_index].tmp_end_index = next_tmp_end_index ]
                /\ stages' = Append(stages, Stage("deinterleave", channel_index, 0))
    /\ UNCHANGED << inputs, harness, tmp, offset, byte_read, bitmap, min_non_zero,
                    max_non_zero, max_value, lookup_table, remaining_input, length,
                    output, collaborator_error >>

\* lines 160-165: the three debug assertions
SegmentsContiguous(data, tmp_len, out_len, expected) ==
    /\ \A index \in 2..Len(data) :
           data[index - 1].tmp_end_index = data[index].tmp_start_index
    /\ data[Len(data)].tmp_end_index = tmp_len
    /\ out_len = expected

\* lines 160-167
decompress_finish ==
    /\ pc = "finish"
    /\ IF /\ debug_assertions
          /\ ~ SegmentsContiguous(channel_data, Len(tmp), Len(out), expected_byte_size)
       THEN /\ pc' = "panicked"
            /\ result' = Panic("debug_assert_eq!")
       ELSE /\ pc' = Following(decompress_order, "finish")
            /\ result' = Ok(out)
    /\ UNCHANGED << inputs, harness, tmp, channel_data, row_y, channel_index, offset,
                    byte_read, bitmap, min_non_zero, max_non_zero, max_value,
                    lookup_table, remaining_input, length, output, out, stages,
                    collaborator_error >>

----------------------------------------------------------------------------
(* test::test_roundtrip_noise_with.                                        *)

\* lines 398-399: compress_bytes(..).unwrap(), then the call of decompress_bytes
test_decompress ==
    /\ pc = "compress_returned"
    /\ roundtrip
    /\ IF result.kind = "Ok"
       THEN /\ pc' = "decompress_bytes"
            /\ compressed' = result.value
            /\ expected_byte_size' = Len(bytes)
            /\ result' = NoResult
       ELSE /\ pc' = "panicked"
            /\ result' = Panic("compress_bytes(..).unwrap()")
            /\ UNCHANGED << compressed, expected_byte_size >>
    \* the locals of compress_bytes are gone
    /\ tmp' = << >>
    /\ channel_data' = << >>
    /\ row_y' = 0
    /\ channel_index' = 1
    /\ offset' = 0
    /\ byte_read' = << >>
    /\ bitmap' = << >>
    /\ min_non_zero' = 0
    /\ max_non_zero' = 0
    /\ max_value' = 0
    /\ lookup_table' = << >>
    /\ output' = << >>
    /\ stages' = << >>
    /\ UNCHANGED << channels, rectangle, bytes, debug_assertions, target_endian,
                    roundtrip, harness, remaining_input, length, out,
                    collaborator_error >>

\* lines 399-401: decompress_bytes(..).unwrap() and the assert_eq!
test_assert ==
    /\ pc = "decompress_returned"
    /\ roundtrip
    /\ IF result.kind = "Ok" /\ result.value = bytes
       THEN pc' = "test_passed" /\ result' = result
       ELSE pc' = "panicked" /\ result' = Panic("test_roundtrip_noise_with")
    /\ UNCHANGED << inputs, harness, tmp, channel_data, row_y, channel_index, offset,
                    byte_read, bitmap, min_non_zero, max_non_zero, max_value,
                    lookup_table, remaining_input, length, output, out, stages,
                    collaborator_error >>

----------------------------------------------------------------------------
(* The calls made to the codec.                                            *)

Channel(sample_type, y_sampling) ==
    [ sample_type |-> sample_type, sampling |-> [ x |-> 1, y |-> y_sampling ] ]

ChannelLists ==
    { << Channel("F16", 1) >>,
      << Channel("F32", 1) >>,
      << Channel("F16", 1), Channel("F16", 1) >>,
      << Channel("F16", 1), Channel("F32", 1) >>,
      << Channel("F32", 1), Channel("F16", 1), Channel("U32", 1) >>,
      << Channel("F16", 2) >>,
      << Channel("F16", 1), Channel("F32", 2) >>,
      << Channel("F32", 2), Channel("F16", 1) >> }

Positions ==
    { [ x |-> -30, y |-> -1 ], [ x |-> 0, y |-> 0 ], [ x |-> -3, y |-> 2 ] }

Rectangles ==
    { [ position |-> p, size |-> [ x |-> w, y |-> h ] ] :
        p \in Positions, w \in 0..MaxWidth, h \in 0..MaxHeight }

\* pixel bytes repeat one of these patterns
Patterns ==
    { << 0 >>,
      << 0, 0, 1, 0 >>,
      << 255, 255, 0, 0, 8, 0 >>,
      << 1, 2, 3, 4, 5, 6, 7, 8, 9, 10 >>,
      << 0, 128, 255, 127 >> }

PatternBytes(pattern, n) == [ i \in 1..n |-> pattern[1 + ((i - 1) % Len(pattern))] ]

\* bytes of the rows the row loops admit
AdmittedLen(chs, rect) ==
    LET data == new_channel_data(chs, rect.size, 0)
        rows(c) == Cardinality({ r \in rect.position.y..(rectangle_end(rect).y - 1) :
                                   RowAdmitted(r, c) })
    IN  2 * Sum([ i \in DOMAIN data |->
                    rows(data[i]) * data[i].resolution.x * data[i].samples_per_pixel ])

\* bytes of the channel segments
SegmentLen(chs, rect) == 2 * SegmentsEnd(new_channel_data(chs, rect.size, 0))

\* bytes test_roundtrip_noise_with generates
TestLen(chs, rect) == bytes_per_pixel(chs) * area(rect.size)

CallLengths(chs, rect) ==
    { AdmittedLen(chs, rect), SegmentLen(chs, rect), TestLen(chs, rect) }

CompressCalls ==
    UNION { { [ function |-> "compress_bytes", channels |-> shape[1],
                rectangle |-> shape[2], bytes |-> PatternBytes(pattern, n),
                compressed |-> << >>, expected_byte_size |-> 0,
                roundtrip |-> (n = TestLen(shape[1], shape[2])) ] :
              pattern \in Patterns, n \in CallLengths(shape[1], shape[2]) } :
            shape \in ChannelLists \X Rectangles }

\* the blocks handed to decompress_bytes directly: well-formed and malformed
BlockHeaders ==
    { [ min |-> 8191, max |-> 0, bits |-> << >> ],
      [ min |-> 0, max |-> 0, bits |-> << 2 >> ],
      [ min |-> 0, max |-> 0, bits |-> << 3 >> ],
      [ min |-> 0, max |-> 1, bits |-> << 4 >> ],
      [ min |-> 8190, max |-> 8191, bits |-> << 0, 128 >> ],
      [ min |-> 0, max |-> 8192, bits |-> << >> ],
      [ min |-> 0, max |-> 9000, bits |-> << >> ],
      [ min |-> 9000, max |-> 65535, bits |-> << 1 >> ] }

BlockPayloads(n) ==
    { huffman_compress(Zeros(n)),
      huffman_compress([ k \in 1..n |-> 1 ]),
      huffman_compress([ k \in 1..n |-> 5 ]),
      SubSeq(huffman_compress(Zeros(n)), 1, 2 * n),
      << >> }

BlockLengths(payload) == { Len(payload), Len(payload) + 1, 0, -1, -2147483647 - 1 }

Block(h, len, payload) ==
    u16_to_le(h.min) \o u16_to_le(h.max) \o h.bits \o i32_to_le(len) \o payload

Blocks(n) ==
    LET whole == { Block(h, len, payload) :
                     h \in BlockHeaders,
                     len \in UNION { BlockLengths(p) : p \in BlockPayloads(n) },
                     payload \in BlockPayloads(n) }
        cut == Block([ min |-> 0, max |-> 0, bits |-> << 2 >> ], 1 + 2 * n,
                     huffman_compress(Zeros(n)))
    IN  whole \cup { SubSeq(cut, 1, k) : k \in 1..(Len(cut) - 1) }

DecompressShapes ==
    { [ channels |-> << Channel("F16", 1) >>,
        rectangle |-> [ position |-> [ x |-> 0, y |-> -1 ], size |-> [ x |-> 1, y |-> 1 ] ] ],
      [ channels |-> << Channel("F32", 1) >>,
        rectangle |-> [ position |-> [ x |-> 0, y |-> 0 ], size |-> [ x |-> 1, y |-> 2 ] ] ] }

DecompressCalls ==
    UNION { { [ function |-> "decompress_bytes", channels |-> shape.channels,
                rectangle |-> shape.rectangle, bytes |-> << >>, compressed |-> block,
                expected_byte_size |-> SegmentLen(shape.channels, shape.rectangle),
                roundtrip |-> FALSE ] :
              block \in Blocks(SegmentLen(shape.channels, shape.rectangle) \div 2) } :
            shape \in DecompressShapes }

Init ==
    /\ \E call \in CompressCalls \cup DecompressCalls :
          /\ pc = call.function
          /\ channels = call.channels
          /\ rectangle = call.rectangle
          /\ bytes = call.bytes
          /\ compressed = call.compressed
          /\ expected_byte_size = call.expected_byte_size
          /\ roundtrip = call.roundtrip
    /\ debug_assertions \in BOOLEAN
    /\ target_endian \in { "little", "big" }
    /\ tmp = << >>
    /\ channel_data = << >>
    /\ row_y = 0
    /\ channel_index = 1
    /\ offset = 0
    /\ byte_read = << >>
    /\ bitmap = << >>
    /\ min_non_zero = 0
    /\ max_non_zero = 0
    /\ max_value = 0
    /\ lookup_table = << >>
    /\ remaining_input = << >>
    /\ length = 0
    /\ output = << >>
    /\ out = << >>
    /\ result = NoResult
    /\ stages = << >>
    /\ collaborator_error = ""
    /\ args = << >>
    /\ ret = << >>

Next ==
    \/ compress_begin
    \/ compress_interleave
    \/ compress_bitmap
    \/ compress_lookup
    \/ compress_header
    \/ compress_wavelet
    \/ compress_huffman
    \/ decompress_begin
    \/ decompress_header
    \/ decompress_bitmap
    \/ decompress_length
    \/ decompress_huffman
    \/ decompress_wavelet
    \/ decompress_lookup
    \/ decompress_deinterleave
    \/ decompress_finish
    \/ test_decompress
    \/ test_assert

Spec == Init /\ [][Next]_vars

----------------------------------------------------------------------------
(* Claims about div_p and mod_p.                                           *)

\* the floor of the real quotient x / y, for y # 0
FloorOfQuotient(x, y) ==
    CHOOSE q \in (-(Abs(x) + 1))..(Abs(x) + 1) :
        IF y > 0 THEN q * y <= x /\ x < (q + 1) * y
                 ELSE q * y >= x /\ x > (q + 1) * y

\* the ceiling of the real quotient x / y, for y # 0
CeilingOfQuotient(x, y) == -FloorOfQuotient(-x, y)

SeedModP == { << -1, 3, 2 >>, << -7, 3, 2 >>, << 6, 3, 0 >>, << -6, -3, 0 >>, << 5, -3, 2 >> }

\* C4: for all x and all nonzero y, mod_p(x, y) lies in [0, |y|) and
\* mod_p(x, y) + y * div_p(x, y) = x; mod_p(-1,3) = 2, mod_p(-7,3) = 2,
\* mod_p(6,3) = 0, mod_p(-6,-3) = 0 and mod_p(5,-3) = 2.
C4_ModPPositive ==
    pc = "returned" =>
        /\ ret[2] >= 0
        /\ ret[2] < Abs(args.y)
        /\ ret[2] + args.y * ret[1] = args.x
        /\ \A s \in SeedModP : (args.x = s[1] /\ args.y = s[2]) => ret[2] = s[3]

C4_Witness == pc = "returned" /\ args.x = -7 /\ args.y = 3 /\ ret[2] = 2

----------------------------------------------------------------------------
(* Claims about the occupancy bitmap and the lookup tables.                *)

U16Values == 0..(U16_RANGE - 1)

\* C9: bitmap_from_data returns a bitmap whose bit 0 is clear and whose bit i,
\* for every i in 1..65535, is set exactly if i occurs in data; min and max are
\* the indices of the lowest and highest nonzero bitmap bytes, and min = 8191,
\* max = 0 when no byte is nonzero.
C9_BitmapFromData ==
    (pc = "forward_lookup_table_from_bitmap" /\ ret.built # << >>) =>
        LET built == ret.built[1]
            nonzero == { b \in 0..(BITMAP_SIZE - 1) : ByteAt(built.bitmap, b) # 0 }
        IN  /\ ~ BitIsSet(built.bitmap, 0)
            /\ \A i \in 1..(U16_RANGE - 1) :
                   BitIsSet(built.bitmap, i) <=> i \in Range(args.data)
            /\ \A b \in DOMAIN built.bitmap : b \in 0..(BITMAP_SIZE - 1)
            /\ nonzero # {} =>
                   /\ built.min = Min(nonzero)
                   /\ built.max = Max(nonzero)
            /\ nonzero = {} =>
                   /\ built.min = 8191
                   /\ built.max = 0

C9_Witness ==
    /\ ret.built # << >>
    /\ 0 \in Range(args.data)
    /\ 7 \in Range(args.data)
    /\ ret.built[1].min = 0
    /\ ret.built[1].max = 0

C9_WitnessEmpty ==
    /\ ret.built # << >>
    /\ args.data = << 0, 0 >>
    /\ ret.built[1].min > ret.built[1].max

\* C8: for every bitmap the two table builders return the same max_value, the
\* number of set bits other than bit 0; reverse_table[forward_table[v]] = v for
\* v = 0 and every v whose bit is set; forward_table maps the present values
\* onto [0, max_value]; and the reverse-table entries above max_value are 0.
C8_LookupTablesInverse ==
    pc = "tables_returned" =>
        LET forward == ret.forward[1]
            reverse == ret.reverse[1]
            present == { v \in U16Values : v = 0 \/ BitIsSet(args.bitmap, v) }
        IN  /\ forward.max_value = reverse.max_value
            /\ forward.max_value =
                   Cardinality({ v \in 1..(U16_RANGE - 1) : BitIsSet(args.bitmap, v) })
            /\ \A v \in present :
                   EntryAt(reverse.table, EntryAt(forward.table, v)) = v
            /\ { EntryAt(forward.table, v) : v \in present } = 0..forward.max_value
            /\ \A k \in (reverse.max_value + 1)..(U16_RANGE - 1) :
                   EntryAt(reverse.table, k) = 0

C8_Witness ==
    /\ pc = "tables_returned"
    /\ args.data = << 65535, 8 >>
    /\ ret.forward[1].max_value = 2
    /\ EntryAt(ret.forward[1].table, 65535) = 2
    /\ EntryAt(ret.reverse[1].table, 2) = 65535

C8_WitnessBitZero ==
    /\ pc = "tables_returned"
    /\ BitIsSet(args.bitmap, 0)
    /\ ret.reverse[1].max_value = 7

----------------------------------------------------------------------------
(* Claims about compress_bytes and decompress_bytes.                       *)

AllUnsampled(chs) ==
    \A i \in DOMAIN chs : chs[i].sampling.x = 1 /\ chs[i].sampling.y = 1

\* C1: for channels of sampling (1,1), any rectangle and pixel bytes of length
\* bytes_per_pixel * width * height, decompressing what compress_bytes returned,
\* with expected size pixels.len(), returns Ok with exactly the pixel bytes.
C1_RoundTrip ==
    (roundtrip /\ AllUnsampled(channels)) =>
        /\ pc # "panicked"
        /\ pc = "compress_returned" => result.kind = "Ok"
        /\ pc = "decompress_returned" => result = Ok(bytes)

C1_Witness ==
    /\ pc = "test_passed"
    /\ Len(channels) = 3
    /\ rectangle.position.y < 0
    /\ rectangle.size = [ x |-> 2, y |-> 3 ]
    /\ Len(bytes) = 60
    /\ Cardinality(Range(bytes)) > 4
    /\ result.value = bytes

\* what the header of a block says, read from the bytes of the block
BlockMin(block) == block[1] + 256 * block[2]

BlockMax(block) == block[3] + 256 * block[4]

BlockBitmapLen(block) ==
    IF BlockMin(block) <= BlockMax(block) THEN BlockMax(block) - BlockMin(block) + 1 ELSE 0

\* the length field is negative, or greater than the bytes after it
BlockLengthBad(block) ==
    LET at == 4 + BlockBitmapLen(block)
        rest == Len(block) - at - 4
    IN  \/ block[at + 4] >= 128     \* negative
        \/ block[at + 4] > 0        \* 2^24 or more
        \/ block[at + 1] + 256 * block[at + 2] + 65536 * block[at + 3] > rest

HuffmanInvoked == \E i \in DOMAIN stages : stages[i].stage = "huffman::decompress"

\* C2: for a non-empty block whose max_nonzero is >= 8192, decompress_bytes
\* returns the error "invalid compression data" having read neither bitmap
\* bytes nor the length field; for a block whose length field is negative or
\* greater than the bytes after it, it returns the same error without invoking
\* huffman::decompress.  It neither returns Ok nor aborts.
C2_HeaderValidation ==
    /\ ( /\ Len(compressed) >= 4
         /\ BlockMax(compressed) >= 8192
         /\ pc \notin { "decompress_bytes", "read_header" } ) =>
            /\ pc = "decompress_returned"
            /\ result = Err("invalid compression data")
            /\ remaining_input = SubSeq(compressed, 5, Len(compressed))
            /\ bitmap = << >>
            /\ ~ HuffmanInvoked
    /\ ( /\ Len(compressed) >= 4
         /\ BlockMax(compressed) < 8192
         /\ Len(compressed) >= 8 + BlockBitmapLen(compressed)
         /\ BlockLengthBad(compressed)
         /\ pc \notin { "decompress_bytes", "read_header", "read_bitmap", "read_length" } ) =>
            /\ pc = "decompress_returned"
            /\ result = Err("invalid compression data")
            /\ ~ HuffmanInvoked

C2_Witness ==
    /\ pc = "decompress_returned"
    /\ Len(compressed) > 8
    /\ BlockMax(compressed) = 9000
    /\ result.kind = "Err"

C2_WitnessLength ==
    /\ pc = "decompress_returned"
    /\ Len(compressed) > 9
    /\ BlockMax(compressed) = 0
    /\ BlockMin(compressed) = 0
    /\ compressed[9] = 255
    /\ result.kind = "Err"

\* C3: whenever huffman::decompress or wavelet::decode reports a failure,
\* decompress_bytes returns that error as its Err result; it neither aborts
\* nor returns Ok.
C3_CollaboratorErrorsSurfaced ==
    collaborator_error # "" =>
        /\ pc \in { "decompress_returned" }
        /\ result = Err(collaborator_error)

\* the wavelet half of C3, which the code keeps
C3_WaveletErrorSurfaced ==
    (collaborator_error # "" /\ stages[Len(stages)].stage = "wavelet::decode") =>
        /\ pc = "decompress_returned"
        /\ result = Err(collaborator_error)

C3_WaveletWitness ==
    /\ pc = "decompress_returned"
    /\ collaborator_error = "wavelet: value out of range"

\* C6: the bytes compress_bytes returns for non-empty pixels are min_nonzero and
\* max_nonzero as little-endian u16, the bytes bitmap[min ..= max] exactly if
\* min <= max (none, with min = 8191 and max = 0, when the data holds only the
\* value 0), a non-negative little-endian i32 counting the bytes that follow,
\* and that many Huffman-coded bytes, nothing after them.
C6_BlockWireFormat ==
    (pc = "compress_returned" /\ bytes # << >> /\ result.kind = "Ok") =>
        LET block == result.value
            n == BlockBitmapLen(block)
            count == block[5 + n] + 256 * block[6 + n] + 65536 * block[7 + n]
        IN  /\ Len(block) >= 8
            /\ BlockMin(block) = min_non_zero
            /\ BlockMax(block) = max_non_zero
            /\ Len(block) >= 8 + n
            /\ \A i \in 1..n : block[4 + i] = ByteAt(bitmap, min_non_zero + i - 1)
            /\ \A b \in DOMAIN bitmap : b >= min_non_zero /\ b <= max_non_zero
            /\ block[8 + n] = 0
            /\ Len(block) = 8 + n + count
            /\ SubSeq(block, 9 + n, Len(block)) = huffman_compress(tmp)
            /\ Range(bytes) = { 0 } =>
                   /\ BlockMin(block) = 8191
                   /\ BlockMax(block) = 0
                   /\ n = 0

C6_Witness ==
    /\ pc = "compress_returned"
    /\ result.kind = "Ok"
    /\ Len(result.value) > 8
    /\ BlockMin(result.value) = 4095
    /\ BlockMax(result.value) = 4096
    /\ result.value[5] = 128
    /\ result.value[6] = 1

C6_WitnessZero ==
    /\ pc = "compress_returned"
    /\ result.kind = "Ok"
    /\ Len(bytes) = 4
    /\ Range(bytes) = { 0 }
    /\ SubSeq(result.value, 1, 4) = << 255, 31, 0, 0 >>

RowLoopAborts ==
    { "tmp[channel.tmp_end_index .. next_tmp_end_index]: out of range",
      "in-memory read failed",
      "tmp_buffer[channel.tmp_end_index .. next_tmp_end_index]: out of range" }

RowLoopOver ==
    pc \in { "bitmap_from_data", "forward_lookup", "write_header", "wavelet_encode",
             "huffman_compress", "compress_returned", "finish", "decompress_returned" }

SegmentEnd(channel) ==
    channel.tmp_start_index + area(channel.resolution) * channel.samples_per_pixel

\* C7: for every channel list (any y_sampling) and every rectangle, a working
\* buffer as long as the segments together being given, the segments are
\* disjoint and tile the buffer in channel order, and the row loop advances each
\* channel's tmp_end_index from tmp_start_index to exactly its segment end,
\* never past it; the last channel ends at tmp.len().
C7_SegmentsTiledByRowLoop ==
    (channel_data # << >> /\ Len(tmp) = SegmentsEnd(channel_data)) =>
        /\ channel_data[1].tmp_start_index = 0
        /\ \A i \in 2..Len(channel_data) :
               channel_data[i].tmp_start_index = SegmentEnd(channel_data[i - 1])
        /\ SegmentEnd(channel_data[Len(channel_data)]) = Len(tmp)
        /\ \A i \in DOMAIN channel_data :
               /\ channel_data[i].tmp_end_index >= channel_data[i].tmp_start_index
               /\ channel_data[i].tmp_end_index <= SegmentEnd(channel_data[i])
        /\ ~ (pc = "panicked" /\ result.error \in RowLoopAborts)
        /\ (RowLoopOver /\ result.kind \in { "none", "Ok" } /\ stages # << >>) =>
               \A i \in DOMAIN channel_data :
                   channel_data[i].tmp_end_index = SegmentEnd(channel_data[i])

\* the part of C7 the code keeps: channels of y_sampling 1
C7_SegmentsTiledUnsampled ==
    AllUnsampled(channels) => C7_SegmentsTiledByRowLoop

StageRank(name) ==
    CASE name = "interleave" -> 1
      [] name = "bitmap_from_data" -> 2
      [] name = "forward_lookup" -> 3
      [] name = "wavelet::encode" -> 4
      [] name = "huffman::compress" -> 5
      [] name = "huffman::decompress" -> 6
      [] name = "wavelet::decode" -> 7
      [] name = "reverse_lookup" -> 8
      [] name = "deinterleave" -> 9

StagesOf(name) == SelectSeq(stages, LAMBDA st : st.stage = name)

\* every (channel, lane) in the order of the wavelet loops
AllLanes(name) ==
    Flatten([ i \in DOMAIN channels |->
                [ lane \in 1..(bytes_per_sample(channels[i].sample_type) \div 2) |->
                    Stage(name, i, lane - 1) ] ])

\* C10: compress_bytes runs interleave, bitmap from the raw buffer, forward
\* lookup, wavelet encode of every channel lane, Huffman compress, in this
\* order; a successful decompress_bytes runs Huffman decompress, wavelet decode
\* of every channel lane, reverse lookup, de-interleave, in this order.
C10_StageOrder ==
    /\ \A i, j \in DOMAIN stages :
           i < j => StageRank(stages[i].stage) <= StageRank(stages[j].stage)
    /\ (pc = "compress_returned" /\ bytes # << >> /\ result.kind = "Ok") =>
           /\ Len(StagesOf("bitmap_from_data")) = 1
           /\ Len(StagesOf("forward_lookup")) = 1
           /\ StagesOf("wavelet::encode") = AllLanes("wavelet::encode")
           /\ Len(StagesOf("huffman::compress")) = 1
           /\ stages[Len(stages)].stage = "huffman::compress"
    /\ (pc = "decompress_returned" /\ compressed # << >> /\ result.kind = "Ok") =>
           /\ stages[1].stage = "huffman::decompress"
           /\ Len(StagesOf("huffman::decompress")) = 1
           /\ StagesOf("wavelet::decode") = AllLanes("wavelet::decode")
           /\ Len(StagesOf("reverse_lookup")) = 1
           /\ Len(stages) = 2 + Len(AllLanes("wavelet::decode")) + Len(StagesOf("deinterleave"))

C10_Witness ==
    /\ pc = "decompress_returned"
    /\ result.kind = "Ok"
    /\ Len(channels) = 2
    /\ Len(StagesOf("wavelet::decode")) = 3
    /\ Len(StagesOf("deinterleave")) = 4
    /\ stages[Len(stages)].stage = "deinterleave"

====
